---------------------------- MODULE Spec2Model ----------------------------
(***************************************************************************)
(* Customer Journey Assembler (data-generation/customer-journey-assembler) *)
(*                                                                         *)
(* State machine of the CustomerJourneyAssembler service: the in-memory    *)
(* identity graph, the touchpoint buffer and the assembled-journey store,  *)
(* with the IdentityResolutionEngine and the JourneyAssemblyEngine as      *)
(* operators.                                                              *)
(*                                                                         *)
(* Conventions                                                             *)
(*   - Optional[str] fields hold a string or None ("None").                *)
(*   - conversion_value (Optional[float]) is <<>> for None and <<v>> for   *)
(*     the number v.                                                       *)
(*   - timestamps are whole hours since a Monday 00:00; a timedelta is a   *)
(*     number of hours.                                                    *)
(*   - confidence scores are integer hundredths (0.95 is 95).              *)
(*   - a customer id "customer_<uuid>" is the integer k of the k-th id     *)
(*     minted; uuid4 is taken to be fresh.                                 *)
(*   - a Python dict is the sequence of its values in insertion order.     *)
(*   - journey_id, created_at, last_updated, match_method and the SQLite   *)
(*     backup are not part of the state: nothing in the service reads      *)
(*     them back.                                                          *)
(*   - the endpoints are coroutines on one event loop; in_flight holds the *)
(*     requests whose coroutine has not returned.                          *)
(***************************************************************************)
EXTENDS Integers, Sequences, FiniteSets, TLC

VARIABLES
    identity_graph,      \* CustomerJourneyAssembler.identity_graph
    touchpoints_buffer,  \* CustomerJourneyAssembler.touchpoints_buffer
    assembled_journeys,  \* CustomerJourneyAssembler.assembled_journeys
    processing_enabled,  \* CustomerJourneyAssembler.processing_enabled
    operation_count,     \* CustomerJourneyAssembler.operation_count
    call,                \* the latest request: operation, argument, outcome
    matches,             \* local `matches` of the latest _resolve_customer_identity
    identity_match,      \* IdentityMatch returned by the latest add_touchpoint
    new_journeys,        \* journeys returned by the latest assemble / process_batch
    in_flight            \* requests whose handler coroutine has not returned

vars == <<identity_graph, touchpoints_buffer, assembled_journeys,
          processing_enabled, operation_count, call, matches,
          identity_match, new_journeys, in_flight>>

---------------------------------------------------------------------------
(* Data model                                                              *)

None == "None"

NoCustomer == 0

Truthy(s) == s # None /\ s # ""

\* TouchpointBase with the defaults of the pydantic model.
TouchpointBase ==
    [touchpoint_id |-> 0, customer_id |-> NoCustomer, timestamp |-> 0,
     channel |-> "google_ads", campaign_id |-> None, device_type |-> None,
     location |-> None, email |-> None, phone |-> None, user_id |-> None,
     client_id |-> None, gclid |-> None, fbclid |-> None,
     linkedin_member_id |-> None, device_fingerprint |-> None,
     ip_hash |-> None, user_agent_hash |-> None,
     conversion_value |-> <<0>>, stage |-> None]

\* r with the fields of `over` replaced (keyword arguments over defaults).
With(r, over) ==
    [f \in DOMAIN r |-> IF f \in DOMAIN over THEN over[f] ELSE r[f]]

Hour(t) == t % 24

Weekday(t) == (t \div 24) % 7

DaysStarted(delta) == (delta + 23) \div 24

\* timedelta.days of a non-negative timedelta
Days(delta) == delta \div 24

Min(a, b) == IF a <= b THEN a ELSE b

RECURSIVE SeqMax(_)
SeqMax(s) ==
    IF Len(s) = 1 THEN s[1]
    ELSE LET m == SeqMax(Tail(s)) IN IF s[1] >= m THEN s[1] ELSE m

InSeq(x, s) == \E i \in 1..Len(s) : s[i] = x

---------------------------------------------------------------------------
(* IdentityResolutionEngine                                                *)

confidence_thresholds(method) ==
    CASE method = "exact_email" -> 95
      [] method = "exact_phone" -> 90
      [] method = "exact_user_id" -> 92
      [] method = "device_fingerprint" -> 78
      [] method = "tracking_ids" -> 75
      [] method = "behavioral_pattern" -> 62
      [] method = "probabilistic" -> 45
      [] OTHER -> 30

CapUncapped(score) == score

Cap(score) == Min(score, 98)

calculate_confidence_score(match_methods) ==
    IF match_methods = <<>> THEN 0
    ELSE LET max_confidence ==
                 SeqMax([i \in 1..Len(match_methods) |->
                             confidence_thresholds(match_methods[i])])
             multi_method_bonus == Min(10 * (Len(match_methods) - 1), 15)
         IN  Cap(max_confidence + multi_method_bonus)

_get_confidence_level(confidence_score) ==
    IF confidence_score >= 80 THEN "high"
    ELSE IF confidence_score >= 60 THEN "medium"
    ELSE IF confidence_score >= 40 THEN "low"
    ELSE "unmatched"

\* total_checks and patterns_match after the three checks.
BehavioralChecks(touchpoint, customer_data) ==
    LET geo == Truthy(touchpoint.location) /\ Truthy(customer_data.primary_location)
        dev == Truthy(touchpoint.device_type) /\ Truthy(customer_data.primary_device)
        b2b == customer_data.customer_type = "B2B"
    IN  [total_checks |-> (IF geo THEN 1 ELSE 0) + (IF dev THEN 1 ELSE 0)
                          + (IF b2b THEN 1 ELSE 0),
         patterns_match |->
             (IF geo /\ touchpoint.location = customer_data.primary_location
              THEN 1 ELSE 0)
             + (IF dev /\ touchpoint.device_type = customer_data.primary_device
                THEN 1 ELSE 0)
             + (IF b2b /\ 9 <= Hour(touchpoint.timestamp)
                       /\ Hour(touchpoint.timestamp) <= 17
                THEN 1 ELSE 0)]

BehavioralAllChecksMatch(touchpoint, customer_data) ==
    LET c == BehavioralChecks(touchpoint, customer_data)
    IN  c.total_checks > 0 /\ c.patterns_match = c.total_checks

BehavioralWithoutChecksGuard(touchpoint, customer_data) ==
    LET c == BehavioralChecks(touchpoint, customer_data)
    IN  10 * c.patterns_match >= 6 * c.total_checks

_check_behavioral_patterns(touchpoint, customer_data) ==
    LET c == BehavioralChecks(touchpoint, customer_data)
    IN  c.total_checks > 0 /\ 10 * c.patterns_match >= 6 * c.total_checks

_check_probabilistic_signals(touchpoint, customer_data) ==
    LET signals ==
            (IF Truthy(touchpoint.ip_hash)
                /\ InSeq(touchpoint.ip_hash, customer_data.ip_hashes)
             THEN 1 ELSE 0)
            + (IF Truthy(touchpoint.user_agent_hash)
                  /\ InSeq(touchpoint.user_agent_hash, customer_data.user_agent_hashes)
               THEN 1 ELSE 0)
            + (IF Truthy(touchpoint.campaign_id)
                  /\ InSeq(touchpoint.campaign_id, customer_data.campaign_history)
               THEN 1 ELSE 0)
    IN  signals >= 2

When(cond, method) == IF cond THEN <<method>> ELSE <<>>

\* The match_methods list the loop body builds for one graph entry.
match_methods_of(touchpoint, customer_data) ==
    When(Truthy(touchpoint.email) /\ touchpoint.email = customer_data.email,
         "exact_email")
    \o When(Truthy(touchpoint.phone) /\ touchpoint.phone = customer_data.phone,
            "exact_phone")
    \o When(Truthy(touchpoint.user_id) /\ touchpoint.user_id = customer_data.user_id,
            "exact_user_id")
    \o When(Truthy(touchpoint.client_id)
            /\ touchpoint.client_id = customer_data.client_id, "tracking_ids")
    \o When(Truthy(touchpoint.gclid) /\ InSeq(touchpoint.gclid, customer_data.gclids),
            "tracking_ids")
    \o When(Truthy(touchpoint.fbclid)
            /\ InSeq(touchpoint.fbclid, customer_data.fbclids), "tracking_ids")
    \o When(Truthy(touchpoint.device_fingerprint)
            /\ touchpoint.device_fingerprint = customer_data.device_fingerprint,
            "device_fingerprint")
    \o When(_check_behavioral_patterns(touchpoint, customer_data),
            "behavioral_pattern")
    \o When(_check_probabilistic_signals(touchpoint, customer_data),
            "probabilistic")

IdentityMatch(customer_id, match_methods) ==
    LET confidence == calculate_confidence_score(match_methods)
    IN  [customer_id |-> customer_id,
         confidence_score |-> confidence,
         confidence_level |-> _get_confidence_level(confidence),
         matching_identifiers |-> match_methods]

RECURSIVE SortTiesReversed(_)
SortTiesReversed(ms) ==
    IF ms = <<>> THEN <<>>
    ELSE LET rest == SortTiesReversed(SubSeq(ms, 1, Len(ms) - 1))
             m == ms[Len(ms)]
             k == Cardinality({i \in 1..Len(rest) :
                                  rest[i].confidence_score > m.confidence_score})
         IN  SubSeq(rest, 1, k) \o <<m>> \o SubSeq(rest, k + 1, Len(rest))

\* sorted(matches, key=confidence_score, reverse=True): stable, so equal
\* scores keep the order of the graph.
RECURSIVE SortByScoreDesc(_)
SortByScoreDesc(ms) ==
    IF ms = <<>> THEN <<>>
    ELSE LET rest == SortByScoreDesc(SubSeq(ms, 1, Len(ms) - 1))
             m == ms[Len(ms)]
             k == Cardinality({i \in 1..Len(rest) :
                                  rest[i].confidence_score >= m.confidence_score})
         IN  SubSeq(rest, 1, k) \o <<m>> \o SubSeq(rest, k + 1, Len(rest))

RECURSIVE CollectMatches(_, _)
CollectMatches(touchpoint, graph) ==
    IF graph = <<>> THEN <<>>
    ELSE LET customer_data == Head(graph)
             match_methods == match_methods_of(touchpoint, customer_data)
         IN  (IF match_methods # <<>>
              THEN <<IdentityMatch(customer_data.customer_id, match_methods)>>
              ELSE <<>>)
             \o CollectMatches(touchpoint, Tail(graph))

find_identity_matches(touchpoint, graph) ==
    SortByScoreDesc(CollectMatches(touchpoint, graph))


---------------------------------------------------------------------------
(* JourneyAssemblyEngine                                                   *)

BoundariesBothNinety(customer_type) == 90 * 24

\* timedelta(days=60) and timedelta(days=90), in hours.
journey_boundaries(customer_type) ==
    IF customer_type = "B2C" THEN 60 * 24 ELSE 90 * 24

synergistic_patterns ==
    << <<"events", "organic_social">>,
       <<"email_marketing", "content_website_seo">>,
       <<"google_ads", "content_website_seo">>,
       <<"facebook_ads", "app_store">>,
       <<"linkedin_ads", "email_marketing">>,
       <<"events", "email_marketing">> >>

\* The emails in which one of '.com', '.nl', '.bv' occurs, and those in which
\* one of 'gmail', 'hotmail', 'yahoo' occurs (substring tests).
HasBusinessDomain(email) == email \in {"x@y.com", "z@gmail.com", "w@firm.nl"}

HasConsumerName(email) == email \in {"z@gmail.com", "gmail@web.de"}

\* Signals of one touchpoint, in halves (+2 is 4, +1 is 2, +0.5 is 1).
B2BSignal(tp) ==
    IF tp.channel \in {"linkedin_ads", "events"} THEN 4
    ELSE IF Truthy(tp.email) /\ HasBusinessDomain(tp.email)
         THEN (IF ~HasConsumerName(tp.email) THEN 2 ELSE 0)
    ELSE IF Hour(tp.timestamp) \in 9..17 /\ Weekday(tp.timestamp) < 5 THEN 1
    ELSE 0

B2CSignal(tp) ==
    IF tp.channel \in {"app_store", "organic_social"} THEN 4
    ELSE IF tp.device_type = "MOBILE" THEN 1
    ELSE IF Hour(tp.timestamp) \in 18..22 \/ Weekday(tp.timestamp) >= 5 THEN 1
    ELSE 0

RECURSIVE SumSeq(_)
SumSeq(s) == IF s = <<>> THEN 0 ELSE Head(s) + SumSeq(Tail(s))

DetermineTieIsB2B(touchpoints) ==
    LET b2b_signals ==
            SumSeq([i \in 1..Len(touchpoints) |-> B2BSignal(touchpoints[i])])
        b2c_signals ==
            SumSeq([i \in 1..Len(touchpoints) |-> B2CSignal(touchpoints[i])])
    IN  IF b2b_signals >= b2c_signals THEN "B2B" ELSE "B2C"

_determine_customer_type(touchpoints) ==
    LET b2b_signals ==
            SumSeq([i \in 1..Len(touchpoints) |-> B2BSignal(touchpoints[i])])
        b2c_signals ==
            SumSeq([i \in 1..Len(touchpoints) |-> B2CSignal(touchpoints[i])])
    IN  IF b2b_signals > b2c_signals THEN "B2B" ELSE "B2C"

SplitGapStrict(time_gap, boundary) == time_gap < boundary

\* The test that keeps touchpoints[i] in the current segment.
WithinBoundary(time_gap, boundary) == time_gap <= boundary

RECURSIVE SplitLoop(_, _, _, _, _)
SplitLoop(touchpoints, i, segments, current_segment, boundary) ==
    IF i > Len(touchpoints) THEN Append(segments, current_segment)
    ELSE LET time_gap == touchpoints[i].timestamp
                         - current_segment[Len(current_segment)].timestamp
         IN  IF WithinBoundary(time_gap, boundary)
             THEN SplitLoop(touchpoints, i + 1, segments,
                            Append(current_segment, touchpoints[i]), boundary)
             ELSE SplitLoop(touchpoints, i + 1, Append(segments, current_segment),
                            <<touchpoints[i]>>, boundary)

SplitWithoutFinalSegment(touchpoints, customer_type) ==
    IF touchpoints = <<>> THEN <<>>
    ELSE LET segments == SplitLoop(touchpoints, 2, <<>>, <<touchpoints[1]>>,
                                   journey_boundaries(customer_type))
         IN  SubSeq(segments, 1, Len(segments) - 1)

_split_into_journey_segments(touchpoints, customer_type) ==
    IF touchpoints = <<>> THEN <<>>
    ELSE SplitLoop(touchpoints, 2, <<>>, <<touchpoints[1]>>,
                   journey_boundaries(customer_type))

LastIndex(channel_sequence, channel) ==
    CHOOSE i \in 1..Len(channel_sequence) :
        /\ channel_sequence[i] = channel
        /\ \A j \in (i + 1)..Len(channel_sequence) : channel_sequence[j] # channel

\* channel_sequence.index(channel)
FirstIndex(channel_sequence, channel) ==
    CHOOSE i \in 1..Len(channel_sequence) :
        /\ channel_sequence[i] = channel
        /\ \A j \in 1..(i - 1) : channel_sequence[j] # channel

_detect_synergistic_patterns(channel_sequence) ==
    LET Detected(pattern) ==
            /\ \A k \in 1..Len(pattern) : InSeq(pattern[k], channel_sequence)
            /\ \A k \in 1..(Len(pattern) - 1) :
                   FirstIndex(channel_sequence, pattern[k])
                       <= FirstIndex(channel_sequence, pattern[k + 1])
        Label(pattern) == pattern[1] \o " -> " \o pattern[2]
        RECURSIVE Scan(_)
        Scan(k) ==
            IF k > Len(synergistic_patterns) THEN <<>>
            ELSE (IF Detected(synergistic_patterns[k])
                  THEN <<Label(synergistic_patterns[k])>> ELSE <<>>)
                 \o Scan(k + 1)
    IN  Scan(1)

IsNone(conversion_value) == conversion_value = <<>>

Positive(conversion_value) == ~IsNone(conversion_value) /\ conversion_value[1] > 0

ValueOrZero(tp) == IF IsNone(tp.conversion_value) THEN 0 ELSE tp.conversion_value[1]

\* any(tp.conversion_value > 0 ...) compares None with 0, a TypeError, unless
\* an earlier touchpoint of the segment already made any() stop.
CreateJourneyRaises(touchpoints) ==
    \E i \in 1..Len(touchpoints) :
        /\ IsNone(touchpoints[i].conversion_value)
        /\ \A j \in 1..(i - 1) : ~Positive(touchpoints[j].conversion_value)

_create_journey(customer_id, customer_type, touchpoints) ==
    LET start_time == touchpoints[1].timestamp
        end_time == touchpoints[Len(touchpoints)].timestamp
        channel_sequence == [i \in 1..Len(touchpoints) |-> touchpoints[i].channel]
        staged == SelectSeq(touchpoints, LAMBDA tp : Truthy(tp.stage))
    IN  [customer_id |-> customer_id,
         customer_type |-> customer_type,
         start_timestamp |-> start_time,
         end_timestamp |-> end_time,
         total_touchpoints |-> Len(touchpoints),
         converted |-> \E i \in 1..Len(touchpoints) :
                           Positive(touchpoints[i].conversion_value),
         conversion_value |->
             SumSeq([i \in 1..Len(touchpoints) |-> ValueOrZero(touchpoints[i])]),
         confidence_score |-> 85,
         confidence_level |-> "high",
         touchpoints |-> touchpoints,
         journey_duration_days |-> Days(end_time - start_time),
         channel_sequence |-> channel_sequence,
         stage_progression |-> [i \in 1..Len(staged) |-> staged[i].stage],
         synergistic_patterns |-> _detect_synergistic_patterns(channel_sequence)]

SortUnsorted(tps) == tps

\* tps.sort(key=timestamp): stable, equal timestamps keep their order.
RECURSIVE SortByTimestamp(_)
SortByTimestamp(tps) ==
    IF tps = <<>> THEN <<>>
    ELSE LET rest == SortByTimestamp(SubSeq(tps, 1, Len(tps) - 1))
             tp == tps[Len(tps)]
             k == Cardinality({i \in 1..Len(rest) :
                                  rest[i].timestamp <= tp.timestamp})
         IN  SubSeq(rest, 1, k) \o <<tp>> \o SubSeq(rest, k + 1, Len(rest))

\* Keys of the defaultdict, in order of first appearance.
RECURSIVE CustomerOrder(_)
CustomerOrder(touchpoints) ==
    IF touchpoints = <<>> THEN <<>>
    ELSE LET before == CustomerOrder(SubSeq(touchpoints, 1, Len(touchpoints) - 1))
             c == touchpoints[Len(touchpoints)].customer_id
         IN  IF InSeq(c, before) THEN before ELSE Append(before, c)

GroupOf(touchpoints, customer_id) ==
    SelectSeq(touchpoints, LAMBDA tp : tp.customer_id = customer_id)

JourneysTypedPerSegment(touchpoints, customer_id) ==
    LET tps == SortByTimestamp(GroupOf(touchpoints, customer_id))
        journey_segments ==
            _split_into_journey_segments(tps, _determine_customer_type(tps))
    IN  [k \in 1..Len(journey_segments) |->
             _create_journey(customer_id,
                             _determine_customer_type(journey_segments[k]),
                             journey_segments[k])]

\* The journeys of one customer (the body of the loop over the groups).
JourneysOfCustomer(touchpoints, customer_id) ==
    LET tps == SortByTimestamp(GroupOf(touchpoints, customer_id))
        customer_type == _determine_customer_type(tps)
        journey_segments == _split_into_journey_segments(tps, customer_type)
    IN  [k \in 1..Len(journey_segments) |->
             _create_journey(customer_id, customer_type, journey_segments[k])]

SegmentsOfCustomer(touchpoints, customer_id) ==
    LET tps == SortByTimestamp(GroupOf(touchpoints, customer_id))
    IN  _split_into_journey_segments(tps, _determine_customer_type(tps))

RECURSIVE Flatten(_)
Flatten(ss) == IF ss = <<>> THEN <<>> ELSE Head(ss) \o Flatten(Tail(ss))

\* assemble_customer_journeys(touchpoints): the journeys, or the exception
\* _create_journey raised.
assemble_customer_journeys(touchpoints) ==
    LET customers == CustomerOrder(touchpoints)
        raises == \E k \in 1..Len(customers) :
                      LET segs == SegmentsOfCustomer(touchpoints, customers[k])
                      IN  \E n \in 1..Len(segs) : CreateJourneyRaises(segs[n])
    IN  IF raises THEN [raised |-> TRUE, journeys |-> <<>>]
        ELSE [raised |-> FALSE,
              journeys |->
                  Flatten([k \in 1..Len(customers) |->
                               JourneysOfCustomer(touchpoints, customers[k])])]

---------------------------------------------------------------------------
(* CustomerJourneyAssembler: identity resolution                           *)

MinConfidence == 60

NewCustomerId(graph) == Len(graph) + 1

NewCustomerMatch(graph) ==
    [customer_id |-> NewCustomerId(graph),
     confidence_score |-> 100,
     confidence_level |-> "high",
     matching_identifiers |-> <<"new_customer">>]

ResolveWorstValid(touchpoint, graph) ==
    LET valid_matches ==
            SelectSeq(find_identity_matches(touchpoint, graph),
                      LAMBDA m : m.confidence_score >= MinConfidence)
    IN  IF valid_matches # <<>> THEN valid_matches[Len(valid_matches)]
        ELSE NewCustomerMatch(graph)

_resolve_customer_identity(touchpoint, graph) ==
    LET valid_matches ==
            SelectSeq(find_identity_matches(touchpoint, graph),
                      LAMBDA m : m.confidence_score >= MinConfidence)
    IN  IF valid_matches # <<>> THEN valid_matches[1]
        ELSE NewCustomerMatch(graph)

NewEntryTypedB2B(customer_id) ==
    [customer_id |-> customer_id, touchpoint_count |-> 0,
     gclids |-> <<>>, fbclids |-> <<>>, ip_hashes |-> <<>>,
     user_agent_hashes |-> <<>>, campaign_history |-> <<>>,
     email |-> None, phone |-> None, user_id |-> None, client_id |-> None,
     device_fingerprint |-> None, primary_location |-> None,
     primary_device |-> None, customer_type |-> "B2B"]

NewEntryCountedAtCreation(customer_id) ==
    [customer_id |-> customer_id, touchpoint_count |-> 1,
     gclids |-> <<>>, fbclids |-> <<>>, ip_hashes |-> <<>>,
     user_agent_hashes |-> <<>>, campaign_history |-> <<>>,
     email |-> None, phone |-> None, user_id |-> None, client_id |-> None,
     device_fingerprint |-> None, primary_location |-> None,
     primary_device |-> None, customer_type |-> None]

NewEntry(customer_id) ==
    [customer_id |-> customer_id, touchpoint_count |-> 0,
     gclids |-> <<>>, fbclids |-> <<>>, ip_hashes |-> <<>>,
     user_agent_hashes |-> <<>>, campaign_history |-> <<>>,
     email |-> None, phone |-> None, user_id |-> None, client_id |-> None,
     device_fingerprint |-> None, primary_location |-> None,
     primary_device |-> None, customer_type |-> None]

HasCustomer(graph, customer_id) ==
    \E i \in 1..Len(graph) : graph[i].customer_id = customer_id

IndexOf(graph, customer_id) ==
    CHOOSE i \in 1..Len(graph) : graph[i].customer_id = customer_id

Overwrite(old, value) == IF Truthy(value) THEN value ELSE old

AppendAlways(list, value) ==
    IF Truthy(value) THEN Append(list, value) ELSE list

AppendIfAbsent(list, value) ==
    IF Truthy(value) /\ ~InSeq(value, list) THEN Append(list, value) ELSE list

UpdatedEntry(customer_data, touchpoint) ==
    [customer_id |-> customer_data.customer_id,
     customer_type |-> customer_data.customer_type,
     email |-> Overwrite(customer_data.email, touchpoint.email),
     phone |-> Overwrite(customer_data.phone, touchpoint.phone),
     user_id |-> Overwrite(customer_data.user_id, touchpoint.user_id),
     client_id |-> Overwrite(customer_data.client_id, touchpoint.client_id),
     device_fingerprint |->
         Overwrite(customer_data.device_fingerprint, touchpoint.device_fingerprint),
     primary_location |->
         Overwrite(customer_data.primary_location, touchpoint.location),
     primary_device |-> Overwrite(customer_data.primary_device, touchpoint.device_type),
     gclids |-> AppendIfAbsent(customer_data.gclids, touchpoint.gclid),
     fbclids |-> AppendIfAbsent(customer_data.fbclids, touchpoint.fbclid),
     ip_hashes |-> AppendIfAbsent(customer_data.ip_hashes, touchpoint.ip_hash),
     user_agent_hashes |->
         AppendIfAbsent(customer_data.user_agent_hashes, touchpoint.user_agent_hash),
     campaign_history |->
         AppendIfAbsent(customer_data.campaign_history, touchpoint.campaign_id),
     touchpoint_count |-> customer_data.touchpoint_count + 1]

_update_identity_graph(graph, touchpoint, match) ==
    LET customer_id == match.customer_id
        g == IF HasCustomer(graph, customer_id) THEN graph
             ELSE Append(graph, NewEntry(customer_id))
        k == IndexOf(g, customer_id)
    IN  [g EXCEPT ![k] = UpdatedEntry(g[k], touchpoint)]

\* The assembler state one add_touchpoint call reads and writes.
Current ==
    [identity_graph |-> identity_graph,
     touchpoints_buffer |-> touchpoints_buffer,
     operation_count |-> operation_count,
     matches |-> matches,
     identity_match |-> identity_match]

AddResolvedKeepsSuppliedId(st, touchpoint, match) ==
    [identity_graph |->
         _update_identity_graph(st.identity_graph, touchpoint, match),
     touchpoints_buffer |-> Append(st.touchpoints_buffer, touchpoint),
     operation_count |-> st.operation_count + 1,
     matches |-> find_identity_matches(touchpoint, st.identity_graph),
     identity_match |-> match]

\* add_touchpoint from the assignment of customer_id on: what it does with
\* the IdentityMatch that _resolve_customer_identity returned.
AddResolved(st, touchpoint, match) ==
    LET resolved == [touchpoint EXCEPT !.customer_id = match.customer_id]
    IN  [identity_graph |->
             _update_identity_graph(st.identity_graph, resolved, match),
         touchpoints_buffer |-> Append(st.touchpoints_buffer, resolved),
         operation_count |-> st.operation_count + 1,
         matches |-> find_identity_matches(touchpoint, st.identity_graph),
         identity_match |-> match]

\* The body of add_touchpoint once processing is known to be enabled.
AfterAdd(st, touchpoint) ==
    AddResolved(st, touchpoint,
                _resolve_customer_identity(touchpoint, st.identity_graph))

Install(st) ==
    /\ identity_graph' = st.identity_graph
    /\ touchpoints_buffer' = st.touchpoints_buffer
    /\ operation_count' = st.operation_count
    /\ matches' = st.matches
    /\ identity_match' = st.identity_match

AddTouchpointFlagIgnored(touchpoint) ==
    /\ Install(AfterAdd(Current, touchpoint))
    /\ call' = [op |-> "add_touchpoint", touchpoints |-> <<touchpoint>>,
                status |-> "ok"]
    /\ UNCHANGED <<assembled_journeys, processing_enabled, new_journeys>>

\* CustomerJourneyAssembler.add_touchpoint(touchpoint)
add_touchpoint(touchpoint) ==
    IF ~processing_enabled
    THEN /\ call' = [op |-> "add_touchpoint", touchpoints |-> <<touchpoint>>,
                     status |-> "503"]
         /\ UNCHANGED <<identity_graph, touchpoints_buffer, assembled_journeys,
                        processing_enabled, operation_count, matches,
                        identity_match, new_journeys>>
    ELSE /\ Install(AfterAdd(Current, touchpoint))
         /\ call' = [op |-> "add_touchpoint", touchpoints |-> <<touchpoint>>,
                     status |-> "ok"]
         /\ UNCHANGED <<assembled_journeys, processing_enabled, new_journeys>>

RECURSIVE IngestLoop(_, _, _)
IngestLoop(st, channel, touchpoints) ==
    IF touchpoints = <<>> THEN st
    ELSE IngestLoop(AfterAdd(st, [Head(touchpoints) EXCEPT !.channel = channel]),
                    channel, Tail(touchpoints))

\* POST /ingest/{channel}
ingest_touchpoints(channel, touchpoints) ==
    IF ~processing_enabled
    THEN /\ call' = [op |-> "ingest_touchpoints", touchpoints |-> touchpoints,
                     status |-> "503"]
         /\ UNCHANGED <<identity_graph, touchpoints_buffer, assembled_journeys,
                        processing_enabled, operation_count, matches,
                        identity_match, new_journeys>>
    ELSE /\ Install(IngestLoop(Current, channel, touchpoints))
         /\ call' = [op |-> "ingest_touchpoints", touchpoints |-> touchpoints,
                     status |-> "ok"]
         /\ UNCHANGED <<assembled_journeys, processing_enabled, new_journeys>>

BatchRaisedBufferCleared(op) ==
    /\ call' = [op |-> op, touchpoints |-> touchpoints_buffer, status |-> "500"]
    /\ touchpoints_buffer' = <<>>
    /\ UNCHANGED <<identity_graph, assembled_journeys, processing_enabled,
                   operation_count, matches, identity_match, new_journeys>>

\* assemble_customer_journeys raised inside process_batch: the exception
\* leaves the method before extend and clear, and the endpoint answers 500.
BatchRaised(op) ==
    /\ call' = [op |-> op, touchpoints |-> touchpoints_buffer, status |-> "500"]
    /\ UNCHANGED <<identity_graph, touchpoints_buffer, assembled_journeys,
                   processing_enabled, operation_count, matches, identity_match,
                   new_journeys>>

\* CustomerJourneyAssembler.process_batch(), called by the endpoint `op`.
process_batch(op) ==
    IF touchpoints_buffer = <<>>
    THEN /\ new_journeys' = <<>>
         /\ call' = [op |-> op, touchpoints |-> <<>>, status |-> "ok"]
         /\ UNCHANGED <<identity_graph, touchpoints_buffer, assembled_journeys,
                        processing_enabled, operation_count, matches,
                        identity_match>>
    ELSE LET assembled == assemble_customer_journeys(touchpoints_buffer)
         IN  IF assembled.raised
             THEN BatchRaised(op)
             ELSE /\ assembled_journeys' = assembled_journeys \o assembled.journeys
                  /\ touchpoints_buffer' = <<>>
                  /\ new_journeys' = assembled.journeys
                  /\ call' = [op |-> op, touchpoints |-> touchpoints_buffer,
                              status |-> "ok"]
                  /\ UNCHANGED <<identity_graph, processing_enabled,
                                 operation_count, matches, identity_match>>

\* POST /webhooks/n8n-trigger
n8n_webhook_trigger ==
    IF ~processing_enabled
    THEN /\ call' = [op |-> "n8n_webhook_trigger", touchpoints |-> <<>>,
                     status |-> "disabled"]
         /\ UNCHANGED <<identity_graph, touchpoints_buffer, assembled_journeys,
                        processing_enabled, operation_count, matches,
                        identity_match, new_journeys>>
    ELSE process_batch("n8n_webhook_trigger")

\* POST /control/enable
enable_processing ==
    /\ processing_enabled' = TRUE
    /\ call' = [op |-> "enable_processing", touchpoints |-> <<>>, status |-> "ok"]
    /\ UNCHANGED <<identity_graph, touchpoints_buffer, assembled_journeys,
                   operation_count, matches, identity_match, new_journeys>>

\* POST /control/disable
disable_processing ==
    /\ processing_enabled' = FALSE
    /\ call' = [op |-> "disable_processing", touchpoints |-> <<>>, status |-> "ok"]
    /\ UNCHANGED <<identity_graph, touchpoints_buffer, assembled_journeys,
                   operation_count, matches, identity_match, new_journeys>>

NoMatch ==
    [customer_id |-> NoCustomer, confidence_score |-> 0,
     confidence_level |-> "unmatched", matching_identifiers |-> <<>>]

NoCall == [op |-> "none", touchpoints |-> <<>>, status |-> "none"]

\* CustomerJourneyAssembler.__init__
Init ==
    /\ identity_graph = <<>>
    /\ touchpoints_buffer = <<>>
    /\ assembled_journeys = <<>>
    /\ processing_enabled = TRUE
    /\ operation_count = 0
    /\ call = NoCall
    /\ matches = <<>>
    /\ identity_match = NoMatch
    /\ new_journeys = <<>>
    /\ in_flight = {}

---------------------------------------------------------------------------
(* Identity resolution under sequential add_touchpoint calls               *)

MaxIdentityCalls == 3

Tp(over) == With(TouchpointBase, over)

IdentityInputs ==
    { Tp([stage |-> "Awareness"]),
      Tp([email |-> ""]),
      Tp([email |-> "x@y.com"]),
      Tp([email |-> "x@y.com", phone |-> "p1"]),
      Tp([email |-> "z@gmail.com", phone |-> "p1"]),
      Tp([user_id |-> "u1"]),
      Tp([device_fingerprint |-> "d1", user_id |-> "u1"]),
      Tp([location |-> "Amsterdam"]),
      Tp([location |-> "Amsterdam", device_type |-> "MOBILE"]),
      Tp([location |-> "Utrecht", device_type |-> "MOBILE"]),
      Tp([gclid |-> "g1"]),
      Tp([client_id |-> "c1", gclid |-> "g1"]),
      Tp([client_id |-> "c1", gclid |-> "g1", fbclid |-> "f1"]),
      Tp([campaign_id |-> "k1"]),
      Tp([ip_hash |-> "i1", user_agent_hash |-> "a1"]),
      Tp([ip_hash |-> "i1", user_agent_hash |-> "a1", campaign_id |-> "k1"]),
      Tp([email |-> "x@y.com", phone |-> "p1", user_id |-> "u1",
          client_id |-> "c1", gclid |-> "g1", fbclid |-> "f1",
          device_fingerprint |-> "d1", location |-> "Amsterdam",
          device_type |-> "MOBILE", ip_hash |-> "i1",
          user_agent_hash |-> "a1", campaign_id |-> "k1",
          linkedin_member_id |-> "l1"]) }

AddTouchpoint ==
    /\ operation_count < MaxIdentityCalls
    /\ \E tp \in IdentityInputs :
           add_touchpoint([tp EXCEPT !.touchpoint_id = operation_count + 1])
    /\ UNCHANGED in_flight

SpecIdentity == Init /\ [][AddTouchpoint]_vars

---------------------------------------------------------------------------
(* _resolve_customer_identity on a given touchpoint and identity graph     *)

MaxEntries == 2

Entry(over) == With(NewEntry(NoCustomer), over)

\* Values of the identity_graph dict that find_identity_matches can be given.
ResolveEntries ==
    { Entry([email |-> "x@y.com"]),
      Entry([primary_location |-> "Amsterdam"]),
      Entry([primary_location |-> "Amsterdam", primary_device |-> "MOBILE"]),
      Entry([primary_location |-> "Amsterdam", primary_device |-> "MOBILE",
             customer_type |-> "B2B"]),
      Entry([customer_type |-> "B2B"]),
      Entry([primary_location |-> "Utrecht", primary_device |-> "MOBILE",
             customer_type |-> "B2B"]),
      Entry([primary_device |-> "DESKTOP", customer_type |-> "B2C"]),
      Entry([ip_hashes |-> <<"i1">>, user_agent_hashes |-> <<"a1">>]) }

\* Hours: 10, 17 are inside 9 <= hour <= 17, 0, 18 and 20 are not.
ResolveTouchpoints ==
    { Tp([touchpoint_id |-> 1]),
      Tp([touchpoint_id |-> 1, timestamp |-> 17]),
      Tp([touchpoint_id |-> 1, timestamp |-> 18]),
      Tp([touchpoint_id |-> 1, timestamp |-> 10, location |-> "Amsterdam"]),
      Tp([touchpoint_id |-> 1, timestamp |-> 10, location |-> "Amsterdam",
          device_type |-> "MOBILE"]),
      Tp([touchpoint_id |-> 1, timestamp |-> 20, location |-> "Amsterdam",
          device_type |-> "MOBILE"]),
      Tp([touchpoint_id |-> 1, timestamp |-> 10, location |-> "Utrecht",
          device_type |-> "DESKTOP"]),
      Tp([touchpoint_id |-> 1, timestamp |-> 20, location |-> "Amsterdam",
          device_type |-> "DESKTOP", email |-> "x@y.com", ip_hash |-> "i1",
          user_agent_hash |-> "a1"]) }

\* The graphs of 1..n entries of S; the k-th customer added has id k.
GraphsOf(S, n) ==
    { [i \in DOMAIN f |-> [f[i] EXCEPT !.customer_id = i, !.touchpoint_count = 1]] :
          f \in UNION { [1..k -> S] : k \in 1..n } }

InitResolve ==
    /\ identity_graph \in GraphsOf(ResolveEntries, MaxEntries)
    /\ touchpoints_buffer = <<>>
    /\ assembled_journeys = <<>>
    /\ processing_enabled = TRUE
    /\ operation_count = 0
    /\ call \in { [op |-> "pending", touchpoints |-> <<tp>>, status |-> "none"] :
                    tp \in ResolveTouchpoints }
    /\ matches = <<>>
    /\ identity_match = NoMatch
    /\ new_journeys = <<>>
    /\ in_flight = {}

\* One call of _resolve_customer_identity on the pending touchpoint.
Resolve ==
    /\ call.op = "pending"
    /\ matches' = find_identity_matches(call.touchpoints[1], identity_graph)
    /\ identity_match' =
           _resolve_customer_identity(call.touchpoints[1], identity_graph)
    /\ call' = [op |-> "_resolve_customer_identity",
                touchpoints |-> call.touchpoints, status |-> "ok"]
    /\ UNCHANGED <<identity_graph, touchpoints_buffer, assembled_journeys,
                   processing_enabled, operation_count, new_journeys, in_flight>>

SpecResolve == InitResolve /\ [][Resolve]_vars

---------------------------------------------------------------------------
(* JourneyAssemblyEngine.assemble_customer_journeys on resolved touchpoints *)

MaxBatch == 3

\* Hours: 1440 is 60 days, 1464 is 61 days, 2160 is 90 days.
AssemblyTouchpoints ==
    { Tp([customer_id |-> 1, timestamp |-> 0]),
      Tp([customer_id |-> 1, timestamp |-> 1440, stage |-> "Interest"]),
      Tp([customer_id |-> 1, timestamp |-> 1441, conversion_value |-> <<5>>]),
      Tp([customer_id |-> 1, timestamp |-> 2881, channel |-> "email_marketing"]),
      Tp([customer_id |-> 1, timestamp |-> 0, channel |-> "linkedin_ads"]),
      Tp([customer_id |-> 1, timestamp |-> 2160, channel |-> "events"]),
      Tp([customer_id |-> 1, timestamp |-> 2161, email |-> "x@y.com"]),
      Tp([customer_id |-> 1, timestamp |-> 1500, conversion_value |-> <<>>]),
      Tp([customer_id |-> 2, timestamp |-> 0, channel |-> "organic_social"]),
      Tp([customer_id |-> 2, timestamp |-> 1441, device_type |-> "MOBILE"]),
      Tp([customer_id |-> 2, timestamp |-> 2160, channel |-> "linkedin_ads",
          conversion_value |-> <<5>>]),
      Tp([customer_id |-> 2, timestamp |-> 2161, channel |-> "linkedin_ads"]),
      Tp([customer_id |-> 2, timestamp |-> 1464]) }

\* The lists of at most n touchpoints of S; touchpoint_id is the position.
ListsOf(S, n) ==
    { [i \in DOMAIN f |-> [f[i] EXCEPT !.touchpoint_id = i]] :
          f \in UNION { [1..k -> S] : k \in 0..n } }

InitAssembly ==
    /\ identity_graph = <<>>
    /\ touchpoints_buffer = <<>>
    /\ assembled_journeys = <<>>
    /\ processing_enabled = TRUE
    /\ operation_count = 0
    /\ call \in { [op |-> "pending", touchpoints |-> tps, status |-> "none"] :
                    tps \in ListsOf(AssemblyTouchpoints, MaxBatch) }
    /\ matches = <<>>
    /\ identity_match = NoMatch
    /\ new_journeys = <<>>
    /\ in_flight = {}

\* One call of assemble_customer_journeys on the pending argument.
Assemble ==
    /\ call.op = "pending"
    /\ LET assembled == assemble_customer_journeys(call.touchpoints)
       IN  /\ call' = [op |-> "assemble_customer_journeys",
                       touchpoints |-> call.touchpoints,
                       status |-> IF assembled.raised THEN "raised" ELSE "ok"]
           /\ new_journeys' = assembled.journeys
    /\ UNCHANGED <<identity_graph, touchpoints_buffer, assembled_journeys,
                   processing_enabled, operation_count, matches, identity_match,
                   in_flight>>

SpecAssembly == InitAssembly /\ [][Assemble]_vars

---------------------------------------------------------------------------
(* assemble_customer_journeys on one customer's touchpoints of one instant *)

MaxChannels == 3

ChannelType ==
    {"google_ads", "facebook_ads", "email_marketing", "linkedin_ads", "events",
     "content_website_seo", "app_store", "organic_social"}

\* The lists of at most n touchpoints of customer 1, all with the same
\* timestamp, one per channel of a channel list; the client numbers them in
\* list order or against it.
ChannelLists(n) ==
    { [i \in DOMAIN f |->
           Tp([customer_id |-> 1, channel |-> f[i],
               touchpoint_id |-> IF up THEN i ELSE Len(f) + 1 - i])] :
          f \in UNION { [1..k -> ChannelType] : k \in 0..n }, up \in BOOLEAN }

InitChannels ==
    /\ identity_graph = <<>>
    /\ touchpoints_buffer = <<>>
    /\ assembled_journeys = <<>>
    /\ processing_enabled = TRUE
    /\ operation_count = 0
    /\ call \in { [op |-> "pending", touchpoints |-> tps, status |-> "none"] :
                    tps \in ChannelLists(MaxChannels) }
    /\ matches = <<>>
    /\ identity_match = NoMatch
    /\ new_journeys = <<>>
    /\ in_flight = {}

SpecChannels == InitChannels /\ [][Assemble]_vars

---------------------------------------------------------------------------
(* assemble_customer_journeys on touchpoints with classification signals   *)

MaxGroup == 3

\* Hours: 10 is Monday 10:00, 20 is Monday 20:00, 1512 is a Monday 00:00
\* 63 days later, 2184 a Monday 00:00 91 days later.
ClassifyTouchpoints ==
    { Tp([customer_id |-> 1, timestamp |-> 10, channel |-> "linkedin_ads",
          email |-> "x@y.com"]),
      Tp([customer_id |-> 1, timestamp |-> 20, channel |-> "app_store",
          device_type |-> "MOBILE"]),
      Tp([customer_id |-> 1, timestamp |-> 0]),
      Tp([customer_id |-> 1, timestamp |-> 10]),
      Tp([customer_id |-> 1, timestamp |-> 20, device_type |-> "MOBILE"]),
      Tp([customer_id |-> 1, timestamp |-> 10, email |-> "z@gmail.com"]),
      Tp([customer_id |-> 1, timestamp |-> 1512]),
      Tp([customer_id |-> 1, timestamp |-> 0, email |-> "x@y.com"]),
      Tp([customer_id |-> 1, timestamp |-> 2184]),
      Tp([customer_id |-> 2, timestamp |-> 0, channel |-> "linkedin_ads"]),
      Tp([customer_id |-> 2, timestamp |-> 1512]) }

InitClassify ==
    /\ identity_graph = <<>>
    /\ touchpoints_buffer = <<>>
    /\ assembled_journeys = <<>>
    /\ processing_enabled = TRUE
    /\ operation_count = 0
    /\ call \in { [op |-> "pending", touchpoints |-> tps, status |-> "none"] :
                    tps \in ListsOf(ClassifyTouchpoints, MaxGroup) }
    /\ matches = <<>>
    /\ identity_match = NoMatch
    /\ new_journeys = <<>>
    /\ in_flight = {}

SpecClassify == InitClassify /\ [][Assemble]_vars

---------------------------------------------------------------------------
(* The service: ingestion, batch processing and the control endpoints      *)

MaxOperations == 3

MaxIngest == 2

SystemChannels == {"google_ads", "linkedin_ads"}

\* A customer_id the producer filled in; no resolution ever creates it.
SuppliedCustomerId == 9

SystemTouchpoints ==
    { Tp([email |-> "x@y.com"]),
      Tp([email |-> "x@y.com", timestamp |-> 1441, device_type |-> "MOBILE",
          conversion_value |-> <<5>>, customer_id |-> SuppliedCustomerId]),
      Tp([timestamp |-> 10, conversion_value |-> <<>>]) }

\* touchpoint_id is the rank of the touchpoint among those submitted.
Numbered(touchpoints) ==
    [i \in 1..Len(touchpoints) |->
         [touchpoints[i] EXCEPT !.touchpoint_id = operation_count + i]]

Ingest ==
    \E channel \in SystemChannels :
        \E tps \in UNION { [1..k -> SystemTouchpoints] : k \in 0..MaxIngest } :
            /\ operation_count + Len(tps) <= MaxOperations
            /\ ingest_touchpoints(channel, Numbered(tps))
            /\ UNCHANGED in_flight

DirectAdd ==
    /\ operation_count < MaxOperations
    /\ \E tp \in SystemTouchpoints, channel \in SystemChannels :
           add_touchpoint([tp EXCEPT !.touchpoint_id = operation_count + 1,
                                     !.channel = channel])
    /\ UNCHANGED in_flight

ProcessBatch == process_batch("process_batch") /\ UNCHANGED in_flight

N8nTrigger == n8n_webhook_trigger /\ UNCHANGED in_flight

Enable == enable_processing /\ UNCHANGED in_flight

Disable == disable_processing /\ UNCHANGED in_flight

Next ==
    \/ Ingest
    \/ DirectAdd
    \/ ProcessBatch
    \/ N8nTrigger
    \/ Enable
    \/ Disable

Spec == Init /\ [][Next]_vars

\* The service with at most MaxBuffered touchpoints waiting for a batch.
MaxBuffered == 1

NextTriggered ==
    \/ Ingest /\ Len(touchpoints_buffer') <= MaxBuffered
    \/ DirectAdd /\ Len(touchpoints_buffer') <= MaxBuffered
    \/ ProcessBatch
    \/ N8nTrigger
    \/ Enable
    \/ Disable

\* The callers of /process-batch (the operator, the workflow's timer) trigger
\* batch processing again and again.
SpecTriggered == Init /\ [][NextTriggered]_vars /\ WF_vars(ProcessBatch)

---------------------------------------------------------------------------
(* Concurrent requests: the handlers as coroutines on the one event loop   *)
(* of uvicorn.run(app). A coroutine runs until it awaits or returns.       *)

MaxRequests == 3

SuspendAfterResolve == {"after_resolve"}

SuspendAfterAssemble == {"after_assemble"}

\* The places where a handler hands the event loop to another request before
\* it returns. The handlers are `async def` and contain no await, and
\* add_touchpoint and process_batch are plain methods: there is none.
SuspensionPoints == {}

\* uuid4: an id that no graph entry and no other coroutine holds.
FreshCustomerId(graph, held) ==
    LET used == {graph[i].customer_id : i \in 1..Len(graph)} \cup held \cup {0}
    IN  1 + (CHOOSE m \in used : \A u \in used : u <= m)

\* The loop of ingest_touchpoints from the position of request req, up to the
\* next suspension point or the return.
RECURSIVE IngestCoroutine(_, _, _)
IngestCoroutine(st, req, held) ==
    IF req.remaining = <<>>
    THEN [st |-> st, request |-> [req EXCEPT !.pc = "done"]]
    ELSE LET touchpoint == [Head(req.remaining) EXCEPT !.channel = req.channel]
             rest == [req EXCEPT !.remaining = Tail(req.remaining),
                                 !.pc = "running", !.identity_match = NoMatch]
         IN  IF req.pc = "resolved"
             THEN IngestCoroutine(AddResolved(st, touchpoint, req.identity_match),
                                  rest, held)
             ELSE LET found == _resolve_customer_identity(touchpoint,
                                                          st.identity_graph)
                      match ==
                          IF found.matching_identifiers = <<"new_customer">>
                          THEN [found EXCEPT !.customer_id =
                                    FreshCustomerId(st.identity_graph, held)]
                          ELSE found
                  IN  IF "after_resolve" \in SuspensionPoints
                      THEN [st |-> st,
                            request |-> [req EXCEPT !.pc = "resolved",
                                                    !.identity_match = match]]
                      ELSE IngestCoroutine(AddResolved(st, touchpoint, match),
                                           rest, held)

\* The event loop runs the coroutine of an /ingest/{channel} request.
RunIngest(req) ==
    IF ~processing_enabled
    THEN /\ call' = [op |-> "ingest_touchpoints", touchpoints |-> req.body,
                     status |-> "503"]
         /\ in_flight' = in_flight \ {req}
         /\ UNCHANGED <<identity_graph, touchpoints_buffer, assembled_journeys,
                        processing_enabled, operation_count, matches,
                        identity_match, new_journeys>>
    ELSE LET held == {r.identity_match.customer_id :
                         r \in {q \in in_flight \ {req} : q.pc = "resolved"}}
             out == IngestCoroutine(Current, req, held)
             returned == out.request.pc = "done"
         IN  /\ Install(out.st)
             /\ in_flight' = (in_flight \ {req})
                                 \cup (IF returned THEN {} ELSE {out.request})
             /\ call' = [op |-> "ingest_touchpoints", touchpoints |-> req.body,
                         status |-> IF returned THEN "ok" ELSE "suspended"]
             /\ UNCHANGED <<assembled_journeys, processing_enabled, new_journeys>>

\* The event loop runs the coroutine of a /process-batch or
\* /webhooks/n8n-trigger request.
RunBatch(req) ==
    IF req.pc = "assembled"
    THEN /\ assembled_journeys' = assembled_journeys \o req.new_journeys
         /\ touchpoints_buffer' = <<>>
         /\ new_journeys' = req.new_journeys
         /\ call' = [op |-> req.endpoint, touchpoints |-> req.body,
                     status |-> "ok"]
         /\ in_flight' = in_flight \ {req}
         /\ UNCHANGED <<identity_graph, processing_enabled, operation_count,
                        matches, identity_match>>
    ELSE IF /\ "after_assemble" \in SuspensionPoints
            /\ req.endpoint = "n8n_webhook_trigger" => processing_enabled
            /\ touchpoints_buffer # <<>>
            /\ ~assemble_customer_journeys(touchpoints_buffer).raised
    THEN /\ in_flight' =
                (in_flight \ {req})
                    \cup {[req EXCEPT
                              !.pc = "assembled",
                              !.body = touchpoints_buffer,
                              !.new_journeys =
                                  assemble_customer_journeys(touchpoints_buffer)
                                      .journeys]}
         /\ call' = [op |-> req.endpoint, touchpoints |-> touchpoints_buffer,
                     status |-> "suspended"]
         /\ UNCHANGED <<identity_graph, touchpoints_buffer, assembled_journeys,
                        processing_enabled, operation_count, matches,
                        identity_match, new_journeys>>
    ELSE /\ IF req.endpoint = "n8n_webhook_trigger"
            THEN n8n_webhook_trigger
            ELSE process_batch("process_batch")
         /\ in_flight' = in_flight \ {req}

RunHandler ==
    \E req \in in_flight :
        IF req.endpoint = "ingest_touchpoints" THEN RunIngest(req)
        ELSE RunBatch(req)

\* The requests that can be in flight together.
ConcurrentRequests ==
    { [endpoint |-> "ingest_touchpoints", channel |-> "google_ads",
       body |-> <<Tp([email |-> "x@y.com"])>>],
      [endpoint |-> "ingest_touchpoints", channel |-> "linkedin_ads",
       body |-> <<Tp([email |-> "z@gmail.com", timestamp |-> 10])>>],
      [endpoint |-> "ingest_touchpoints", channel |-> "google_ads",
       body |-> <<Tp([timestamp |-> 1441, conversion_value |-> <<5>>])>>],
      [endpoint |-> "ingest_touchpoints", channel |-> "google_ads",
       body |-> <<Tp([email |-> "x@y.com"]),
                  Tp([email |-> "x@y.com", timestamp |-> 1441])>>],
      [endpoint |-> "process_batch", channel |-> None, body |-> <<>>],
      [endpoint |-> "n8n_webhook_trigger", channel |-> None, body |-> <<>>] }

\* The coroutine of the i-th request, not started; the client numbers its
\* touchpoints.
Request(i, r) ==
    LET body == [k \in 1..Len(r.body) |->
                     [r.body[k] EXCEPT !.touchpoint_id = 2 * (i - 1) + k]]
    IN  [request_id |-> i, endpoint |-> r.endpoint, channel |-> r.channel,
         body |-> body, remaining |-> body, pc |-> "start",
         identity_match |-> NoMatch, new_journeys |-> <<>>]

InitConcurrent ==
    /\ identity_graph = <<>>
    /\ touchpoints_buffer = <<>>
    /\ assembled_journeys = <<>>
    /\ processing_enabled = TRUE
    /\ operation_count = 0
    /\ call = NoCall
    /\ matches = <<>>
    /\ identity_match = NoMatch
    /\ new_journeys = <<>>
    /\ in_flight \in { {Request(i, f[i]) : i \in 1..MaxRequests} :
                          f \in [1..MaxRequests -> ConcurrentRequests] }

SpecConcurrent == InitConcurrent /\ [][RunHandler]_vars


---------------------------------------------------------------------------
(* Properties of identity resolution                                       *)

Accepted == call.op = "add_touchpoint" /\ call.status = "ok"

Range(s) == {s[i] : i \in 1..Len(s)}

IdentifierBundle(tp) ==
    {tp.email, tp.phone, tp.user_id, tp.client_id, tp.gclid, tp.fbclid,
     tp.linkedin_member_id, tp.device_fingerprint, tp.ip_hash,
     tp.user_agent_hash}

NoIdentifiers(tp) == \A v \in IdentifierBundle(tp) : ~Truthy(v)

\* The latest touchpoint was given a customer of its own, created by this call.
BrandNewCustomer ==
    /\ identity_match = NewCustomerMatch(SubSeq(identity_graph, 1,
                                                Len(identity_graph) - 1))
    /\ identity_graph[Len(identity_graph)].touchpoint_count = 1
    /\ touchpoints_buffer[Len(touchpoints_buffer)].customer_id
           = identity_match.customer_id
    /\ \A i \in 1..(Len(touchpoints_buffer) - 1) :
           touchpoints_buffer[i].customer_id # identity_match.customer_id

\* C1: any two touchpoints accepted so far that carry the same non-empty
\* email were resolved to the same customer_id, whatever was submitted in
\* between.
C1_SameEmailSameCustomer ==
    \A i, j \in 1..Len(touchpoints_buffer) :
        (Truthy(touchpoints_buffer[i].email)
         /\ touchpoints_buffer[i].email = touchpoints_buffer[j].email)
        => touchpoints_buffer[i].customer_id = touchpoints_buffer[j].customer_id

TopScore(ms) == SeqMax([i \in 1..Len(ms) |-> ms[i].confidence_score])

\* C6: an accepted touchpoint is never rejected: the result is a
\* highest-scoring candidate of find_identity_matches over the graph before the
\* call when that score is at least 0.60, and otherwise a new customer_id that
\* is not a key of that graph, with score 1.0, level HIGH and
\* matching_identifiers ["new_customer"].
C6_BestCandidateOrNewCustomer ==
    [][(call'.op = "add_touchpoint" /\ call'.status = "ok"
        /\ operation_count' = operation_count + 1)
       => LET candidates == find_identity_matches(call'.touchpoints[1], identity_graph)
          IN  IF candidates # <<>> /\ TopScore(candidates) >= 60
              THEN /\ identity_match' \in Range(candidates)
                   /\ identity_match'.confidence_score = TopScore(candidates)
              ELSE /\ ~HasCustomer(identity_graph, identity_match'.customer_id)
                   /\ identity_match'.confidence_score = 100
                   /\ identity_match'.confidence_level = "high"
                   /\ identity_match'.matching_identifiers = <<"new_customer">>]_vars

\* C6 witness: candidates existed, all below 0.60, and a new customer was minted.
C6_Witness ==
    /\ Accepted
    /\ matches # <<>>
    /\ identity_match.matching_identifiers = <<"new_customer">>

\* C7 (as claimed): a touchpoint with no identifier-bundle field always gets a
\* brand-new customer_id.
C7_NoIdentifiersAlwaysNew ==
    (Accepted /\ NoIdentifiers(call.touchpoints[1])) => BrandNewCustomer

\* C7 (amended): a touchpoint with no identifier-bundle field and neither
\* location nor device_type always gets a brand-new customer_id.
C7_NoIdentifiersNoBehaviourAlwaysNew ==
    (Accepted /\ NoIdentifiers(call.touchpoints[1])
     /\ ~Truthy(call.touchpoints[1].location) /\ ~Truthy(call.touchpoints[1].device_type))
    => BrandNewCustomer

\* C7 witness: the same anonymous touchpoint submitted twice in a row, against
\* a non-empty graph, got two different new customers.
C7_Witness ==
    /\ Accepted
    /\ NoIdentifiers(call.touchpoints[1])
    /\ ~Truthy(call.touchpoints[1].location) /\ ~Truthy(call.touchpoints[1].device_type)
    /\ Len(touchpoints_buffer) >= 3
    /\ LET n == Len(touchpoints_buffer)
       IN  /\ [touchpoints_buffer[n - 1] EXCEPT !.customer_id = 0, !.touchpoint_id = 0]
               = [touchpoints_buffer[n] EXCEPT !.customer_id = 0, !.touchpoint_id = 0]
           /\ touchpoints_buffer[n - 1].customer_id # touchpoints_buffer[n].customer_id
    /\ BrandNewCustomer

\* C8: every IdentityMatch for an existing customer has a score within
\* [0, 0.98] and every IdentityMatch for a newly minted customer has score 1.0.
C8_ScoreRange ==
    /\ \A i \in 1..Len(matches) :
           matches[i].confidence_score >= 0 /\ matches[i].confidence_score <= 98
    /\ Accepted =>
           IF identity_match.matching_identifiers = <<"new_customer">>
           THEN identity_match.confidence_score = 100
           ELSE identity_match.confidence_score >= 0
                /\ identity_match.confidence_score <= 98

\* C8 witness: an existing customer was returned with the score at the cap.
C8_Witness ==
    /\ Accepted
    /\ identity_match.matching_identifiers # <<"new_customer">>
    /\ identity_match.confidence_score = 98
    /\ Len(identity_match.matching_identifiers) >= 2

ClaimedScore(methods) ==
    LET fired == Range(methods)
        k == Cardinality(fired)
        base == CHOOSE b \in {confidence_thresholds(m) : m \in fired} :
                    \A m \in fired : confidence_thresholds(m) <= b
    IN  Min(base + Min(10 * (k - 1), 15), 98)

\* C9: every candidate's score is max(base of the fired methods)
\* + min(0.10 * (k - 1), 0.15), capped at 0.98, with k the number of distinct
\* methods that fired.
C9_ScoreFormulaDistinctMethods ==
    \A i \in 1..Len(matches) :
        matches[i].confidence_score = ClaimedScore(matches[i].matching_identifiers)

\* C10: tracking_ids appears at most once in the matching_identifiers of every
\* candidate.
C10_TrackingIdsOnce ==
    \A i \in 1..Len(matches) :
        Cardinality({j \in 1..Len(matches[i].matching_identifiers) :
                        matches[i].matching_identifiers[j] = "tracking_ids"}) <= 1


---------------------------------------------------------------------------
(* Properties of journey assembly                                          *)

Returned == call.op = "assemble_customer_journeys" /\ call.status = "ok"

\* How often touchpoint tp occurs in the touchpoint lists of the journeys.
Occurrences(journeys, tp) ==
    Cardinality({<<k, i>> \in (1..Len(journeys)) \X (1..MaxBatch + 1) :
                    /\ i <= Len(journeys[k].touchpoints)
                    /\ journeys[k].touchpoints[i] = tp})

\* C2: the touchpoint lists of the returned journeys partition the input: each
\* input touchpoint is in exactly one journey, once, and nothing else is in a
\* journey.
C2_JourneysPartitionInput ==
    Returned =>
        /\ \A i \in 1..Len(call.touchpoints) :
               Occurrences(new_journeys, call.touchpoints[i]) = 1
        /\ \A k \in 1..Len(new_journeys) :
               Range(new_journeys[k].touchpoints) \subseteq Range(call.touchpoints)

\* C2 witness: three touchpoints of two customers came back as three journeys.
C2_Witness ==
    /\ Returned
    /\ Len(call.touchpoints) = 3
    /\ Len(new_journeys) = 3
    /\ \E k \in 1..3 : new_journeys[k].customer_id # new_journeys[1].customer_id

JourneysOf(journeys, customer_id) ==
    SelectSeq(journeys, LAMBDA j : j.customer_id = customer_id)

ClaimedBoundary(customer_type) ==
    IF customer_type = "B2B" THEN 90 * 24 ELSE 60 * 24

NonDecreasing(tps) ==
    \A i \in 1..(Len(tps) - 1) : tps[i].timestamp <= tps[i + 1].timestamp

\* C3: for each customer, the journeys taken in order list the customer's
\* touchpoints in time order; neighbours inside a journey are at most the
\* boundary of the customer's type apart (60 days B2C, 90 days B2B), and the
\* last touchpoint of a journey and the first of the next are more than the
\* boundary apart.
C3_SplitExactlyAtBoundary ==
    Returned =>
        \A c \in {call.touchpoints[i].customer_id : i \in 1..Len(call.touchpoints)} :
            LET js == JourneysOf(new_journeys, c)
                all == Flatten([k \in 1..Len(js) |-> js[k].touchpoints])
                boundary == ClaimedBoundary(js[1].customer_type)
            IN  /\ NonDecreasing(all)
                /\ Range(all) = Range(GroupOf(call.touchpoints, c))
                /\ \A k \in 1..Len(js) :
                       /\ js[k].customer_type = js[1].customer_type
                       /\ \A i \in 1..(Len(js[k].touchpoints) - 1) :
                              js[k].touchpoints[i + 1].timestamp
                                  - js[k].touchpoints[i].timestamp <= boundary
                /\ \A k \in 1..(Len(js) - 1) :
                       js[k + 1].touchpoints[1].timestamp
                           - js[k].touchpoints[Len(js[k].touchpoints)].timestamp
                       > boundary

\* C3 witness: a B2C customer with a gap of exactly 60 days inside a journey and
\* a gap of 60 days and one hour between that journey and the next.
C3_Witness ==
    /\ Returned
    /\ Len(new_journeys) = 2
    /\ new_journeys[1].customer_type = "B2C"
    /\ new_journeys[1].customer_id = new_journeys[2].customer_id
    /\ Len(new_journeys[1].touchpoints) = 2
    /\ new_journeys[1].touchpoints[2].timestamp
           - new_journeys[1].touchpoints[1].timestamp = 60 * 24
    /\ new_journeys[2].start_timestamp - new_journeys[1].end_timestamp = 60 * 24 + 1

\* C5: in every assembled journey all touchpoints carry the journey's
\* customer_id, the touchpoints are in non-decreasing timestamp order, and
\* channel_sequence lists their channels in that order, one per touchpoint.
C5_JourneyOrderedOneCustomer ==
    Returned =>
        \A k \in 1..Len(new_journeys) :
            LET j == new_journeys[k]
            IN  /\ \A i \in 1..Len(j.touchpoints) :
                       j.touchpoints[i].customer_id = j.customer_id
                /\ NonDecreasing(j.touchpoints)
                /\ Len(j.channel_sequence) = j.total_touchpoints
                /\ Len(j.channel_sequence) = Len(j.touchpoints)
                /\ \A i \in 1..Len(j.touchpoints) :
                       j.channel_sequence[i] = j.touchpoints[i].channel

\* C5 witness: two touchpoints of one customer arrived latest first, with a
\* touchpoint of another customer between them, and form a journey over two
\* different channels.
C5_Witness ==
    /\ Returned
    /\ Len(call.touchpoints) = 3
    /\ call.touchpoints[1].timestamp > call.touchpoints[3].timestamp
    /\ call.touchpoints[1].customer_id = call.touchpoints[3].customer_id
    /\ call.touchpoints[2].customer_id # call.touchpoints[1].customer_id
    /\ \E k \in 1..Len(new_journeys) :
           /\ Len(new_journeys[k].touchpoints) = 2
           /\ new_journeys[k].channel_sequence[1] # new_journeys[k].channel_sequence[2]

\* C4: no two journeys of the same customer in the assembled-journey store
\* overlap in time.
C4_StoredJourneysDisjoint ==
    \A i, k \in 1..Len(assembled_journeys) :
        (i # k /\ assembled_journeys[i].customer_id = assembled_journeys[k].customer_id)
        => \/ assembled_journeys[i].end_timestamp
                  < assembled_journeys[k].start_timestamp
           \/ assembled_journeys[k].end_timestamp
                  < assembled_journeys[i].start_timestamp


---------------------------------------------------------------------------
(* Properties of the identity graph update                                 *)

\* A single-valued field after the update: the touchpoint's value when it
\* carries one, the old value otherwise.
SingleValued(old, new, value) ==
    /\ Truthy(value) => new = value
    /\ ~Truthy(value) => new = old

\* A multi-valued field after the update: the value is added at the end only
\* if the touchpoint carries one and the list does not hold it yet.
MultiValued(old, new, value) ==
    IF Truthy(value) /\ value \notin Range(old)
    THEN new = old \o <<value>>
    ELSE new = old

\* C11: an accepted add_touchpoint resolved to customer c changes the graph
\* only in the entry of c (created with count zero, empty lists and no values
\* if absent): each single-valued field becomes the touchpoint's value when it
\* carries one and is kept otherwise, each list gains the touchpoint's value
\* only if it does not hold it, touchpoint_count grows by one, and every other
\* entry and field is unchanged.
C11_UpdateChangesOnlyResolvedEntry ==
    [][(call'.op = "add_touchpoint" /\ call'.status = "ok"
        /\ operation_count' = operation_count + 1)
       => LET tp == call'.touchpoints[1]
              c == identity_match'.customer_id
              known == \E i \in 1..Len(identity_graph) :
                           identity_graph[i].customer_id = c
              old == IF known
                     THEN identity_graph[CHOOSE i \in 1..Len(identity_graph) :
                                             identity_graph[i].customer_id = c]
                     ELSE NewEntry(c)
              at == {i \in 1..Len(identity_graph') :
                        identity_graph'[i].customer_id = c}
              new == identity_graph'[CHOOSE i \in at : TRUE]
          IN  /\ Cardinality(at) = 1
              /\ Len(identity_graph')
                     = Len(identity_graph) + (IF known THEN 0 ELSE 1)
              /\ \A i \in 1..Len(identity_graph) :
                     identity_graph[i].customer_id # c
                     => identity_graph'[i] = identity_graph[i]
              /\ known => at = {i \in 1..Len(identity_graph) :
                                   identity_graph[i].customer_id = c}
              /\ ~known => /\ old.touchpoint_count = 0
                           /\ old.gclids = <<>> /\ old.fbclids = <<>>
                           /\ old.ip_hashes = <<>>
                           /\ old.user_agent_hashes = <<>>
                           /\ old.campaign_history = <<>>
              /\ SingleValued(old.email, new.email, tp.email)
              /\ SingleValued(old.phone, new.phone, tp.phone)
              /\ SingleValued(old.user_id, new.user_id, tp.user_id)
              /\ SingleValued(old.client_id, new.client_id, tp.client_id)
              /\ SingleValued(old.device_fingerprint, new.device_fingerprint,
                              tp.device_fingerprint)
              /\ SingleValued(old.primary_location, new.primary_location,
                              tp.location)
              /\ SingleValued(old.primary_device, new.primary_device,
                              tp.device_type)
              /\ MultiValued(old.gclids, new.gclids, tp.gclid)
              /\ MultiValued(old.fbclids, new.fbclids, tp.fbclid)
              /\ MultiValued(old.ip_hashes, new.ip_hashes, tp.ip_hash)
              /\ MultiValued(old.user_agent_hashes, new.user_agent_hashes,
                             tp.user_agent_hash)
              /\ MultiValued(old.campaign_history, new.campaign_history,
                             tp.campaign_id)
              /\ new.touchpoint_count = old.touchpoint_count + 1
              /\ new.customer_type = old.customer_type]_vars

\* C11 witness: three touchpoints of one customer, the last two with the same
\* gclid, which the entry holds once; the last carries a client_id and no
\* email, and the entry still holds the email of the first.
C11_Witness ==
    /\ Accepted
    /\ Len(touchpoints_buffer) = 3
    /\ Len(identity_graph) = 1
    /\ identity_graph[1].touchpoint_count = 3
    /\ Truthy(touchpoints_buffer[3].gclid)
    /\ touchpoints_buffer[2].gclid = touchpoints_buffer[3].gclid
    /\ identity_graph[1].gclids = <<touchpoints_buffer[3].gclid>>
    /\ Truthy(touchpoints_buffer[3].client_id)
    /\ ~Truthy(touchpoints_buffer[3].email)
    /\ Truthy(identity_graph[1].email)


---------------------------------------------------------------------------
(* Properties of concurrent requests                                       *)

\* The graph after the touchpoints tps, each merged into the entry of the
\* customer it was given.
RECURSIVE GraphAfter(_, _)
GraphAfter(graph, tps) ==
    IF tps = <<>> THEN graph
    ELSE GraphAfter(_update_identity_graph(
                        graph, Head(tps), [customer_id |-> Head(tps).customer_id]),
                    Tail(tps))

TouchpointsOf(journeys) ==
    Flatten([k \in 1..Len(journeys) |-> journeys[k].touchpoints])

\* Touchpoints with the same email and no other identifier have one customer.
SameEmailOneCustomer(tps) ==
    \A i, j \in 1..Len(tps) :
        (/\ Truthy(tps[i].email) /\ tps[i].email = tps[j].email
         /\ \A v \in (IdentifierBundle(tps[i]) \cup IdentifierBundle(tps[j]))
                         \ {tps[i].email} : ~Truthy(v))
        => tps[i].customer_id = tps[j].customer_id

\* C12: whatever the order in which the event loop runs the requests in
\* flight, every touchpoint a step accepts was resolved against the graph that
\* holds the updates of all touchpoints accepted before it (the best candidate
\* of at least 0.60 over that graph, else an id that graph does not hold), the
\* graph after the step is that graph with the touchpoint merged in, and two
\* accepted touchpoints with the same email and no other identifier never have
\* different customer_ids.
C12_ResolveThenUpdateAtomic ==
    [][LET n == Len(touchpoints_buffer)
           added == SubSeq(touchpoints_buffer', n + 1, Len(touchpoints_buffer'))
       IN  /\ operation_count' > operation_count =>
                  /\ touchpoints_buffer' = touchpoints_buffer \o added
                  /\ Len(added) = operation_count' - operation_count
                  /\ \A k \in 1..Len(added) :
                         LET graph == GraphAfter(identity_graph,
                                                 SubSeq(added, 1, k - 1))
                             candidates == find_identity_matches(added[k], graph)
                         IN  IF candidates # <<>> /\ TopScore(candidates) >= 60
                             THEN \E m \in Range(candidates) :
                                      /\ m.confidence_score = TopScore(candidates)
                                      /\ m.customer_id = added[k].customer_id
                             ELSE ~HasCustomer(graph, added[k].customer_id)
                  /\ identity_graph' = GraphAfter(identity_graph, added)
           /\ SameEmailOneCustomer(touchpoints_buffer'
                                       \o TouchpointsOf(assembled_journeys'))]_vars

\* C12 witness: all requests have returned; two touchpoints with the same
\* email came in different requests, were handled in the opposite order of
\* arrival, and have the same customer.
C12_Witness ==
    /\ in_flight = {}
    /\ \E i, j \in 1..Len(touchpoints_buffer) :
           /\ i < j
           /\ touchpoints_buffer[i].touchpoint_id
                  > touchpoints_buffer[j].touchpoint_id + 1
           /\ Truthy(touchpoints_buffer[i].email)
           /\ touchpoints_buffer[i].email = touchpoints_buffer[j].email
           /\ touchpoints_buffer[i].customer_id = touchpoints_buffer[j].customer_id

\* C13: whatever the order in which the event loop runs ingest and batch
\* requests, the store only grows at its end, the touchpoints a step removes
\* from the buffer are exactly the touchpoints of the journeys that step adds
\* to the store, each once, and none of them was in a journey of the store
\* before; a step that removes nothing keeps the buffer as a prefix.
C13_BatchAssemblesItsSnapshot ==
    [][LET removed == Range(touchpoints_buffer) \ Range(touchpoints_buffer')
           grown == SubSeq(assembled_journeys', Len(assembled_journeys) + 1,
                           Len(assembled_journeys'))
           assembled == TouchpointsOf(grown)
       IN  /\ Len(assembled_journeys') >= Len(assembled_journeys)
           /\ SubSeq(assembled_journeys', 1, Len(assembled_journeys))
                  = assembled_journeys
           /\ removed = Range(assembled)
           /\ Cardinality(Range(assembled)) = Len(assembled)
           /\ Range(assembled) \cap Range(TouchpointsOf(assembled_journeys)) = {}
           /\ removed = {} =>
                  /\ Len(touchpoints_buffer') >= Len(touchpoints_buffer)
                  /\ SubSeq(touchpoints_buffer', 1, Len(touchpoints_buffer))
                         = touchpoints_buffer]_vars

\* C13 witness: all requests have returned; a batch ran after one ingest
\* request and before another that had arrived earlier, so the store holds
\* the touchpoint with the higher number and the buffer the one with the lower.
C13_Witness ==
    /\ in_flight = {}
    /\ assembled_journeys # <<>>
    /\ touchpoints_buffer # <<>>
    /\ assembled_journeys[1].touchpoints[1].touchpoint_id
           > touchpoints_buffer[1].touchpoint_id


---------------------------------------------------------------------------
(* Properties of batch processing                                          *)

BatchCall(c) == c.op \in {"process_batch", "n8n_webhook_trigger"}

\* C14: a batch call either leaves the store and the buffer as they were, or
\* empties the buffer and adds to the store journeys that hold every buffered
\* touchpoint exactly once; when assembling fails (the call ends in an error)
\* it is the former, so the store never holds journeys for part of a batch.
C14_BatchAllOrNothing ==
    [][BatchCall(call') =>
          LET grown == SubSeq(assembled_journeys', Len(assembled_journeys) + 1,
                              Len(assembled_journeys'))
              nothing == /\ assembled_journeys' = assembled_journeys
                         /\ touchpoints_buffer' = touchpoints_buffer
              all == /\ touchpoints_buffer' = <<>>
                     /\ assembled_journeys' = assembled_journeys \o grown
                     /\ Range(TouchpointsOf(grown)) = Range(touchpoints_buffer)
                     /\ Len(TouchpointsOf(grown)) = Len(touchpoints_buffer)
          IN  /\ nothing \/ all
              /\ call'.status = "500" => nothing
              /\ (\E i \in 1..Len(touchpoints_buffer) :
                      /\ touchpoints_buffer[i].conversion_value = <<>>
                      /\ \A j \in 1..Len(touchpoints_buffer) :
                             touchpoints_buffer[j].conversion_value = <<>>
                             \/ touchpoints_buffer[j].conversion_value[1] <= 0)
                 => call'.status \in {"500", "disabled"}]_vars

\* C14 witness: a batch failed on a buffer of two touchpoints of two customers,
\* the second without conversion_value; the store still holds only the journey
\* of an earlier batch and the buffer both touchpoints.
C14_Witness ==
    /\ BatchCall(call)
    /\ call.status = "500"
    /\ Len(touchpoints_buffer) = 2
    /\ touchpoints_buffer = call.touchpoints
    /\ touchpoints_buffer[1].customer_id # touchpoints_buffer[2].customer_id
    /\ touchpoints_buffer[1].conversion_value # <<>>
    /\ touchpoints_buffer[2].conversion_value = <<>>
    /\ Len(assembled_journeys) = 1
    /\ assembled_journeys[1].touchpoints[1] \notin Range(touchpoints_buffer)


---------------------------------------------------------------------------
(* Properties of pattern detection and of the order inside a journey       *)

PatternLabel(pattern) == pattern[1] \o " -> " \o pattern[2]

\* Channel a occurs in seq, channel b occurs in seq, and a occurs for the
\* first time before b does.
FirstBefore(seq, a, b) ==
    \E i, j \in 1..Len(seq) :
        /\ seq[i] = a /\ \A k \in 1..(i - 1) : seq[k] # a
        /\ seq[j] = b /\ \A k \in 1..(j - 1) : seq[k] # b
        /\ i < j

\* C15: for every journey and every catalog pattern [A, B], "A -> B" is among
\* the detected patterns iff A and B both occur in the channel sequence and A
\* occurs for the first time before B does; the detected patterns are the
\* matched labels in catalog order, each once; [events, organic_social] gives
\* "events -> organic_social" and [organic_social, events] does not.
C15_PatternsByFirstOccurrence ==
    Returned =>
        \A k \in 1..Len(new_journeys) :
            LET seq == new_journeys[k].channel_sequence
                detected == new_journeys[k].synergistic_patterns
                labels == [n \in 1..Len(synergistic_patterns) |->
                               PatternLabel(synergistic_patterns[n])]
            IN  /\ \A n \in 1..Len(synergistic_patterns) :
                       labels[n] \in Range(detected)
                       <=> FirstBefore(seq, synergistic_patterns[n][1],
                                       synergistic_patterns[n][2])
                /\ detected = SelectSeq(labels, LAMBDA l : l \in Range(detected))
                /\ seq = <<"events", "organic_social">>
                       => detected = <<"events -> organic_social">>
                /\ seq = <<"organic_social", "events">>
                       => "events -> organic_social" \notin Range(detected)

\* C15 witness: events, then email_marketing, then organic_social: two
\* patterns, reported in catalog order, the first with a channel in between.
C15_Witness ==
    /\ Returned
    /\ Len(new_journeys) = 1
    /\ new_journeys[1].channel_sequence
           = <<"events", "email_marketing", "organic_social">>
    /\ new_journeys[1].synergistic_patterns
           = <<"events -> organic_social", "events -> email_marketing">>


---------------------------------------------------------------------------
(* Properties of customer-type classification                              *)

Customers(tps) == {tps[i].customer_id : i \in 1..Len(tps)}

BusinessDomainEmail(tp) ==
    Truthy(tp.email) /\ HasBusinessDomain(tp.email) /\ ~HasConsumerName(tp.email)

BusinessHours(tp) == Hour(tp.timestamp) \in 9..17 /\ Weekday(tp.timestamp) < 5

EveningOrWeekend(tp) ==
    Hour(tp.timestamp) \in 18..22 \/ Weekday(tp.timestamp) >= 5

\* The scores of a group with every signal counted on its own, in halves.
ClaimedB2BScore(tps) ==
    SumSeq([i \in 1..Len(tps) |->
                (IF tps[i].channel \in {"linkedin_ads", "events"} THEN 4 ELSE 0)
                + (IF BusinessDomainEmail(tps[i]) THEN 2 ELSE 0)
                + (IF BusinessHours(tps[i]) THEN 1 ELSE 0)])

ClaimedB2CScore(tps) ==
    SumSeq([i \in 1..Len(tps) |->
                (IF tps[i].channel \in {"app_store", "organic_social"} THEN 4 ELSE 0)
                + (IF tps[i].device_type = "MOBILE" THEN 1 ELSE 0)
                + (IF EveningOrWeekend(tps[i]) THEN 1 ELSE 0)])

\* C16: the customer_type of every journey is B2B exactly when the b2b score
\* of the customer's touchpoints exceeds their b2c score, each score adding up
\* every signal of every touchpoint independently (+2 channel, +1 business
\* email, +0.5 business hours; +2 channel, +0.5 mobile, +0.5 evening/weekend).
C16_IndependentSignalsVote ==
    Returned =>
        \A k \in 1..Len(new_journeys) :
            LET group == GroupOf(call.touchpoints, new_journeys[k].customer_id)
            IN  new_journeys[k].customer_type = "B2B"
                <=> ClaimedB2BScore(group) > ClaimedB2CScore(group)

\* The scores as _determine_customer_type adds them up.
B2BScore(tps) == SumSeq([i \in 1..Len(tps) |-> B2BSignal(tps[i])])

B2CScore(tps) == SumSeq([i \in 1..Len(tps) |-> B2CSignal(tps[i])])

\* The journeys js of one customer are cut exactly where two neighbours are
\* more than `boundary` apart.
CutAt(js, boundary) ==
    /\ \A k \in 1..Len(js) :
           \A i \in 1..(Len(js[k].touchpoints) - 1) :
               js[k].touchpoints[i + 1].timestamp
                   - js[k].touchpoints[i].timestamp <= boundary
    /\ \A k \in 1..(Len(js) - 1) :
           js[k + 1].touchpoints[1].timestamp
               - js[k].touchpoints[Len(js[k].touchpoints)].timestamp > boundary

\* C17: a customer whose b2b and b2c scores are equal, and in particular one
\* whose touchpoints carry no classification signal, is classified B2C and
\* its journeys are cut at gaps of more than 60 days.
C17_TieIsB2CWithSixtyDays ==
    Returned =>
        \A c \in Customers(call.touchpoints) :
            LET group == GroupOf(call.touchpoints, c)
                js == JourneysOf(new_journeys, c)
            IN  (\/ B2BScore(group) = B2CScore(group)
                 \/ (ClaimedB2BScore(group) = 0 /\ ClaimedB2CScore(group) = 0))
                => /\ \A k \in 1..Len(js) : js[k].customer_type = "B2C"
                   /\ CutAt(js, 60 * 24)

\* C17 witness: three touchpoints of one customer with equal scores above
\* zero, cut into two journeys at a gap between 60 and 90 days.
C17_Witness ==
    /\ Returned
    /\ Len(call.touchpoints) = 3
    /\ Customers(call.touchpoints) = {1}
    /\ B2BScore(call.touchpoints) = B2CScore(call.touchpoints)
    /\ B2BScore(call.touchpoints) > 0
    /\ Len(new_journeys) = 2
    /\ new_journeys[2].start_timestamp - new_journeys[1].end_timestamp <= 90 * 24
    /\ new_journeys[1].customer_type = "B2C"

\* C18: within one assemble call all journeys of one customer carry the same
\* customer_type, the one the scores of all the customer's touchpoints give,
\* and the customer's touchpoints are cut at gaps of more than the boundary of
\* that type, the same for every gap.
C18_OneTypePerCustomer ==
    Returned =>
        \A c \in Customers(call.touchpoints) :
            LET group == GroupOf(call.touchpoints, c)
                js == JourneysOf(new_journeys, c)
                decided == IF B2BScore(group) > B2CScore(group)
                           THEN "B2B" ELSE "B2C"
            IN  /\ js # <<>>
                /\ \A k \in 1..Len(js) : js[k].customer_type = decided
                /\ CutAt(js, ClaimedBoundary(decided))

\* C18 witness: two journeys of one B2B customer more than 90 days apart; the
\* touchpoints of the second alone would not make the customer B2B.
C18_Witness ==
    /\ Returned
    /\ Customers(call.touchpoints) = {1}
    /\ Len(new_journeys) = 2
    /\ new_journeys[1].customer_type = "B2B"
    /\ new_journeys[2].customer_type = "B2B"
    /\ B2BScore(new_journeys[2].touchpoints) <= B2CScore(new_journeys[2].touchpoints)
    /\ new_journeys[2].start_timestamp - new_journeys[1].end_timestamp > 90 * 24

\* C19: in every journey, touchpoints with equal timestamps are in ascending
\* touchpoint_id order, whatever the order in which they arrived.
C19_TiesByTouchpointId ==
    Returned =>
        \A k \in 1..Len(new_journeys) :
            \A i \in 1..(Len(new_journeys[k].touchpoints) - 1) :
                new_journeys[k].touchpoints[i].timestamp
                    = new_journeys[k].touchpoints[i + 1].timestamp
                => new_journeys[k].touchpoints[i].touchpoint_id
                       < new_journeys[k].touchpoints[i + 1].touchpoint_id


---------------------------------------------------------------------------
(* Properties of the journey record                                        *)

\* C20: in every assembled journey, start_timestamp and end_timestamp are the
\* timestamps of the first and the last touchpoint, total_touchpoints is the
\* number of touchpoints, journey_duration_days is the number of whole days
\* in end minus start (0 for one touchpoint), conversion_value is the sum of
\* the touchpoints' conversion values, and converted holds exactly when some
\* touchpoint has a conversion value above zero.
C20_JourneyMetrics ==
    Returned =>
        \A k \in 1..Len(new_journeys) :
            LET j == new_journeys[k]
                tps == j.touchpoints
                span == tps[Len(tps)].timestamp - tps[1].timestamp
                values == [i \in 1..Len(tps) |->
                               IF tps[i].conversion_value = <<>> THEN 0
                               ELSE tps[i].conversion_value[1]]
            IN  /\ j.start_timestamp = tps[1].timestamp
                /\ j.end_timestamp = tps[Len(tps)].timestamp
                /\ j.total_touchpoints = Len(tps)
                /\ 24 * j.journey_duration_days <= span
                /\ span < 24 * (j.journey_duration_days + 1)
                /\ Len(tps) = 1 => j.journey_duration_days = 0
                /\ j.conversion_value = SumSeq(values)
                /\ j.converted <=> \E i \in 1..Len(tps) : values[i] > 0

\* C20 witness: a journey of three touchpoints over 62 days and 12 hours, one
\* with a conversion of 5 and a later one without a conversion value.
C20_Witness ==
    /\ Returned
    /\ Len(new_journeys) = 1
    /\ new_journeys[1].total_touchpoints = 3
    /\ new_journeys[1].end_timestamp - new_journeys[1].start_timestamp = 1500
    /\ new_journeys[1].journey_duration_days = 62
    /\ new_journeys[1].converted
    /\ new_journeys[1].conversion_value = 5
    /\ new_journeys[1].touchpoints[3].conversion_value = <<>>


---------------------------------------------------------------------------
(* Properties of _resolve_customer_identity on a given graph               *)

Resolved == call.op = "_resolve_customer_identity"

\* behavioral_pattern is among the methods of the candidate for customer c.
BehavioralFired(c) ==
    \E i \in 1..Len(matches) :
        /\ matches[i].customer_id = c
        /\ "behavioral_pattern" \in Range(matches[i].matching_identifiers)

\* <<matched, applicable>> over the three checks of behavioral_pattern.
ClaimedChecks(tp, entry) ==
    LET geo == Truthy(tp.location) /\ Truthy(entry.primary_location)
        dev == Truthy(tp.device_type) /\ Truthy(entry.primary_device)
        b2b == entry.customer_type = "B2B"
        One(b) == IF b THEN 1 ELSE 0
    IN  << One(geo /\ tp.location = entry.primary_location)
           + One(dev /\ tp.device_type = entry.primary_device)
           + One(b2b /\ Hour(tp.timestamp) \in 9..17),
           One(geo) + One(dev) + One(b2b) >>

\* C21: behavioral_pattern fires for a touchpoint and a graph entry iff the
\* matched checks are 1 of 1, 2 of 2, 2 of 3 or 3 of 3 of the checks with
\* comparable data (location, device type, business hours for a B2B entry);
\* 0 of 0, 0 of n, 1 of 2 and 1 of 3 do not fire.
C21_BehavioralSixtyPercent ==
    Resolved =>
        \A i \in 1..Len(identity_graph) :
            BehavioralFired(identity_graph[i].customer_id)
            <=> ClaimedChecks(call.touchpoints[1], identity_graph[i])
                    \in {<<1, 1>>, <<2, 2>>, <<2, 3>>, <<3, 3>>}

\* C21 witness: against a B2B entry a touchpoint outside business hours with
\* the entry's location and device fires with 2 of 3, and against a second
\* B2B entry with the same device and another location it does not with 1 of 3.
C21_Witness ==
    /\ Resolved
    /\ Len(identity_graph) = 2
    /\ ClaimedChecks(call.touchpoints[1], identity_graph[1]) = <<2, 3>>
    /\ BehavioralFired(1)
    /\ ClaimedChecks(call.touchpoints[1], identity_graph[2]) = <<1, 3>>
    /\ ~BehavioralFired(2)

TopCandidates ==
    {i \in 1..Len(matches) :
        \A j \in 1..Len(matches) :
            matches[j].confidence_score <= matches[i].confidence_score}

\* C22: the candidates come in non-increasing confidence_score order, equal
\* scores in the order in which the customers were added to the graph, and
\* a resolution that merges picks the earliest-created top-scoring customer.
C22_TiesInCreationOrder ==
    Resolved =>
        /\ \A i, j \in 1..Len(matches) :
               i < j =>
                   /\ matches[i].confidence_score >= matches[j].confidence_score
                   /\ matches[i].confidence_score = matches[j].confidence_score
                          => IndexOf(identity_graph, matches[i].customer_id)
                                 < IndexOf(identity_graph, matches[j].customer_id)
        /\ HasCustomer(identity_graph, identity_match.customer_id)
               => \A i \in TopCandidates :
                      IndexOf(identity_graph, identity_match.customer_id)
                          <= IndexOf(identity_graph, matches[i].customer_id)

\* C22 witness: two customers tie at a score that merges and the first
\* created one is chosen.
C22_Witness ==
    /\ Resolved
    /\ Cardinality(TopCandidates) = 2
    /\ matches[1].confidence_score >= MinConfidence
    /\ identity_match.customer_id = identity_graph[1].customer_id


---------------------------------------------------------------------------
(* Properties of the processing_enabled flag                               *)

Stores == <<identity_graph, touchpoints_buffer, assembled_journeys,
            operation_count>>

\* C23: while processing is disabled add_touchpoint and the ingest endpoint
\* answer 503 and leave the graph, the buffer, the journey store and the
\* operation counter unchanged; enable and disable change none of them.
C23_DisabledAddRejected ==
    [][ /\ (~processing_enabled
              /\ call'.op \in {"add_touchpoint", "ingest_touchpoints"})
           => (call'.status = "503" /\ UNCHANGED Stores)
        /\ call'.op \in {"enable_processing", "disable_processing"}
           => UNCHANGED Stores ]_vars

\* C23 witness: a touchpoint was rejected with 503 while others are buffered.
C23_Witness ==
    /\ call.op = "add_touchpoint"
    /\ call.status = "503"
    /\ ~processing_enabled
    /\ touchpoints_buffer # <<>>

\* C24: while processing is disabled no request adds a journey to the
\* assembled-journey store or clears the touchpoint buffer.
C24_DisabledNoAssembly ==
    [][ ~processing_enabled
        => /\ assembled_journeys' = assembled_journeys
           /\ touchpoints_buffer # <<>> => touchpoints_buffer' # <<>> ]_vars


---------------------------------------------------------------------------
(* Properties of the journey length                                        *)

Span(journey) == journey.end_timestamp - journey.start_timestamp

---------------------------------------------------------------------------
(* Properties of the assembler's stores                                    *)

GraphTouchpoints ==
    SumSeq([i \in 1..Len(identity_graph) |-> identity_graph[i].touchpoint_count])

StoredTouchpoints ==
    SumSeq([k \in 1..Len(assembled_journeys) |->
                assembled_journeys[k].total_touchpoints])

\* C26: the sum of touchpoint_count over the identity graph equals the
\* number of accepted add_touchpoint calls, which equals the length of the
\* buffer plus the sum of total_touchpoints over the stored journeys.
C26_TouchpointsConserved ==
    /\ GraphTouchpoints = operation_count
    /\ operation_count = Len(touchpoints_buffer) + StoredTouchpoints

\* C26 witness: three touchpoints were accepted, some already assembled into
\* stored journeys and at least one still buffered.
C26_Witness ==
    /\ operation_count = 3
    /\ touchpoints_buffer # <<>>
    /\ StoredTouchpoints > 0
    /\ Len(identity_graph) < 3

KnownCustomer(customer_id) ==
    customer_id # NoCustomer /\ HasCustomer(identity_graph, customer_id)

\* C27: after every operation each buffered touchpoint and each stored
\* journey carries a customer_id that is a key of the identity graph,
\* whatever customer_id the producer supplied, and no operation removes a
\* key from the identity graph.
C27_CustomerIdsResolved ==
    [][ /\ \A i \in 1..Len(touchpoints_buffer') :
               /\ HasCustomer(identity_graph', touchpoints_buffer'[i].customer_id)
               /\ touchpoints_buffer'[i].customer_id # NoCustomer
        /\ \A k \in 1..Len(assembled_journeys') :
               /\ HasCustomer(identity_graph', assembled_journeys'[k].customer_id)
               /\ assembled_journeys'[k].customer_id # NoCustomer
        /\ \A i \in 1..Len(identity_graph) :
               HasCustomer(identity_graph', identity_graph[i].customer_id) ]_vars

\* C27 witness: a touchpoint submitted with a producer's customer_id is in a
\* stored journey of the customer it was resolved to.
C27_Witness ==
    \E k \in 1..Len(assembled_journeys) :
        /\ KnownCustomer(assembled_journeys[k].customer_id)
        /\ assembled_journeys[k].customer_id # SuppliedCustomerId
        /\ \E i \in 1..Len(assembled_journeys[k].touchpoints) :
               /\ assembled_journeys[k].touchpoints[i].email = "x@y.com"
               /\ assembled_journeys[k].touchpoints[i].timestamp = 1441
               /\ assembled_journeys[k].touchpoints[i].customer_id
                      = assembled_journeys[k].customer_id


---------------------------------------------------------------------------
(* Properties of the graphs that add_touchpoint builds                     *)

\* C28: no two entries of the identity graph hold the same email value.
C28_EmailOneCustomer ==
    \A i, k \in 1..Len(identity_graph) :
        (i # k /\ Truthy(identity_graph[i].email))
        => identity_graph[i].email # identity_graph[k].email

\* behavioral_pattern is among the methods of the candidate for c in ms.
BehavioralIn(ms, c) ==
    \E i \in 1..Len(ms) :
        /\ ms[i].customer_id = c
        /\ "behavioral_pattern" \in Range(ms[i].matching_identifiers)

\* C29: no entry of a graph built by add_touchpoint has a customer_type, so
\* behavioral_pattern fires for an entry exactly when at least one of
\* location and device type is comparable and every comparable one matches;
\* the candidate then scores at least 0.62, the touchpoint is merged into an
\* existing customer, and into that entry's customer when it comes first.
C29_BehaviouralOnReachableGraphs ==
    [][ /\ \A i \in 1..Len(identity_graph') :
               identity_graph'[i].customer_type = None
        /\ \A i \in 1..Len(identity_graph) :
               LET tp == call'.touchpoints[1]
                   entry == identity_graph[i]
                   geo == Truthy(tp.location) /\ Truthy(entry.primary_location)
                   dev == Truthy(tp.device_type) /\ Truthy(entry.primary_device)
                   fired == BehavioralIn(matches', entry.customer_id)
               IN  /\ fired <=> /\ geo \/ dev
                                /\ geo => tp.location = entry.primary_location
                                /\ dev => tp.device_type = entry.primary_device
                   /\ fired =>
                          /\ matches'[1].confidence_score >= 62
                          /\ HasCustomer(identity_graph, identity_match'.customer_id)
                          /\ matches'[1].customer_id = entry.customer_id
                                 => identity_match'.customer_id = entry.customer_id
    ]_vars

\* C29 witness: a touchpoint was merged into a customer on behavioral_pattern
\* alone, at 0.62.
C29_Witness ==
    /\ call.op = "add_touchpoint"
    /\ matches # <<>>
    /\ matches[1].matching_identifiers = <<"behavioral_pattern">>
    /\ matches[1].confidence_score = 62
    /\ identity_match.customer_id = matches[1].customer_id
    /\ \E i \in 1..Len(identity_graph) :
           /\ identity_graph[i].customer_id = identity_match.customer_id
           /\ identity_graph[i].touchpoint_count >= 2
           /\ identity_graph[i].customer_type = None


---------------------------------------------------------------------------
(* Progress of batch processing                                            *)

Buffered(touchpoint_id) ==
    \E i \in 1..Len(touchpoints_buffer) :
        touchpoints_buffer[i].touchpoint_id = touchpoint_id

Stored(touchpoint_id) ==
    \E k \in 1..Len(assembled_journeys) :
        \E i \in 1..Len(assembled_journeys[k].touchpoints) :
            assembled_journeys[k].touchpoints[i].touchpoint_id = touchpoint_id

\* C30: when batch processing is triggered again and again, every touchpoint
\* accepted by add_touchpoint is eventually in a journey of the store, and
\* the buffer is empty right after each process_batch that returns.
C30_AcceptedEventuallyAssembled ==
    /\ \A touchpoint_id \in 1..MaxOperations :
           Buffered(touchpoint_id) ~> Stored(touchpoint_id)
    /\ [][ (call'.op \in {"process_batch", "n8n_webhook_trigger"}
              /\ call'.status = "ok")
           => touchpoints_buffer' = <<>> ]_vars

==========================================================================
